---- MODULE Spec2Model ----
(***************************************************************************)
(* Model of packages/agent-python/agent.py: the module-level import steps  *)
(* (load_dotenv, load_system_prompt) and the entrypoint coroutine, one     *)
(* step per statement, for several jobs running in one worker process.     *)
(* Optional values (Python None) are sequences of length 0 or 1.           *)
(* The event loop switches coroutines only at the two awaits; the model    *)
(* lets jobs interleave at every statement, which includes those runs.     *)
(* environ is fixed once load_dotenv has run; the prompt file on disk can  *)
(* be edited, removed or protected by anybody at any time.                 *)
(***************************************************************************)
EXTENDS Integers, Sequences, FiniteSets, TLC

\* ---------------------------------------------------------------- bounds
NumJobs == 2
Jobs == 1..NumJobs

\* ------------------------------------------------------------- constants
MCP_TIMEOUT == 10
STT == "assemblyai/universal-streaming:en"
LLM == "openai/gpt-4.1-mini"
TTS == "cartesia/sonic-2:9626c31c-bec5-4cca-baa8-f8ba9e84c8bc"

None == <<>>
Some(x) == <<x>>

\* Values MCP_SERVER_URL can have in the process environment / in .env
Urls == {"https://example.com/mcp", "http://localhost:6767/mcp"}
EnvValues == {None, Some("")} \cup {Some(u) : u \in Urls}
DotenvValues == {None, Some("http://localhost:6767/mcp")}

\* States of agent-prompt.md on disk
Missing == [exists |-> FALSE, readable |-> FALSE, text |-> ""]
Unreadable == [exists |-> TRUE, readable |-> FALSE, text |-> ""]
TextFile(t) == [exists |-> TRUE, readable |-> TRUE, text |-> t]
PromptTexts == {"", "You are helpful.", "You are terse."}
FileStates == {Missing, Unreadable} \cup {TextFile(t) : t \in PromptTexts}

VARIABLES
  file,            \* agent-prompt.md on disk
  dotenv,          \* value of MCP_SERVER_URL in the .env file
  environ,         \* os.environ["MCP_SERVER_URL"]
  proc,            \* position of the module body: "l25", "l35", "running", "crashed"
  SYSTEM_PROMPT,   \* module global, None until line 35 has run
  reads,           \* results of the read_text() calls made on the prompt file
  pc,              \* per job: position inside entrypoint
  mcp_server_url,  \* per job: local of entrypoint
  mcp_servers,     \* per job: local list of entrypoint
  ctx,             \* per job: the JobContext
  agent,           \* per job: local, None or the voice.Agent
  session,         \* per job: local, None or the voice.AgentSession
  startCalls,      \* per job: number of session.start calls
  printed,         \* per job: the lines this invocation wrote to stdout
  exc              \* per job: the exception that left entrypoint, "" if none

vars == <<file, dotenv, environ, proc, SYSTEM_PROMPT, reads, pc, mcp_server_url,
          mcp_servers, ctx, agent, session, startCalls, printed, exc>>

procVars == <<dotenv, environ, proc, SYSTEM_PROMPT, reads>>
jobVars == <<pc, mcp_server_url, mcp_servers, ctx, agent, session, startCalls,
             printed, exc>>

\* ------------------------------------------------------- pure functions
\* Path.read_text(): raises when the file is missing or unreadable
read_text(f) ==
  IF ~f.exists THEN [raised |-> "FileNotFoundError", text |-> ""]
  ELSE IF ~f.readable THEN [raised |-> "PermissionError", text |-> ""]
  ELSE [raised |-> "", text |-> f.text]

\* load_system_prompt(): returns what read_text returns, raises what it raises
load_system_prompt_default(f) ==
  IF read_text(f).raised # "" \/ read_text(f).text = ""
  THEN [raised |-> "", text |-> "You are a voice assistant."]
  ELSE read_text(f)

load_system_prompt(f) ==
  read_text(f)

\* load_dotenv(): override=False, a variable already in os.environ is kept
load_dotenv(env, de) ==
  IF env = None THEN de ELSE env

\* os.getenv("MCP_SERVER_URL")
getenv(env) ==
  env

\* Python truthiness of an Optional[str]
Truthy(v) ==
  v # None /\ v[1] # ""

MCPServerHTTP(u, t) ==
  [url |-> u, timeout |-> t]

voice_Agent(instr, servers) ==
  [instructions |-> instr, mcp_servers |-> servers]

voice_AgentSession(s, l, t) ==
  [stt |-> s, llm |-> l, tts |-> t, started |-> FALSE]

RoomName(j) ==
  "room-" \o ToString(j)

Line(k, t, n) ==
  [kind |-> k, text |-> t, n |-> n]

NewContext(j) ==
  [room |-> RoomName(j), connectCalls |-> 0, auto_subscribe |-> "", connected |-> FALSE]

\* ------------------------------------------------------------------ Init
Init ==
  /\ file \in FileStates
  /\ dotenv \in DotenvValues
  /\ environ \in EnvValues
  /\ proc = "l25"
  /\ SYSTEM_PROMPT = None
  /\ reads = <<>>
  /\ pc = [j \in Jobs |-> "idle"]
  /\ mcp_server_url = [j \in Jobs |-> None]
  /\ mcp_servers = [j \in Jobs |-> <<>>]
  /\ ctx = [j \in Jobs |-> NewContext(j)]
  /\ agent = [j \in Jobs |-> None]
  /\ session = [j \in Jobs |-> None]
  /\ startCalls = [j \in Jobs |-> 0]
  /\ printed = [j \in Jobs |-> <<>>]
  /\ exc = [j \in Jobs |-> ""]

\* ---------------------------------------------------------- environment
\* Somebody edits, removes or protects agent-prompt.md
WriteFile(f) ==
  /\ file # f
  /\ file' = f
  /\ UNCHANGED <<procVars, jobVars>>

\* ---------------------------------------------------------- module body
\* line 25
LoadDotenv ==
  /\ proc = "l25"
  /\ environ' = load_dotenv(environ, dotenv)
  /\ proc' = "l35"
  /\ UNCHANGED <<file, dotenv, SYSTEM_PROMPT, reads, jobVars>>

\* line 35, then lines 80-86 when the read succeeded
ImportPrompt_swallow ==
  /\ proc = "l35"
  /\ reads' = Append(reads, read_text(file))
  /\ SYSTEM_PROMPT' = Some(read_text(file).text)
  /\ proc' = "running"
  /\ UNCHANGED <<file, dotenv, environ, jobVars>>

ImportPrompt ==
  /\ proc = "l35"
  /\ reads' = Append(reads, read_text(file))
  /\ IF load_system_prompt(file).raised # ""
     THEN /\ proc' = "crashed"
          /\ UNCHANGED SYSTEM_PROMPT
     ELSE /\ SYSTEM_PROMPT' = Some(load_system_prompt(file).text)
          /\ proc' = "running"
  /\ UNCHANGED <<file, dotenv, environ, jobVars>>

\* ----------------------------------------------------------- entrypoint
\* The worker, once running, calls entrypoint(ctx) for job j
Invoke(j) ==
  /\ proc = "running"
  /\ pc[j] = "idle"
  /\ pc' = [pc EXCEPT ![j] = "l42"]
  /\ UNCHANGED <<file, procVars, mcp_server_url, mcp_servers, ctx, agent, session,
                 startCalls, printed, exc>>

\* lines 42-45
GetEnv(j) ==
  /\ pc[j] = "l42"
  /\ mcp_server_url' = [mcp_server_url EXCEPT ![j] = getenv(environ)]
  /\ mcp_servers' = [mcp_servers EXCEPT ![j] = <<>>]
  /\ pc' = [pc EXCEPT ![j] = "l46"]
  /\ UNCHANGED <<file, procVars, ctx, agent, session, startCalls, printed, exc>>

\* lines 46-54
Branch_fixedurl(j) ==
  /\ pc[j] = "l46"
  /\ IF Truthy(mcp_server_url[j])
     THEN /\ printed' = [printed EXCEPT ![j] =
                 Append(@, Line("configured", mcp_server_url[j][1], 0))]
          /\ mcp_servers' = [mcp_servers EXCEPT ![j] =
                 Append(@, MCPServerHTTP("http://localhost:6767/mcp", MCP_TIMEOUT))]
     ELSE /\ printed' = [printed EXCEPT ![j] = Append(@, Line("no_url", "", 0))]
          /\ UNCHANGED mcp_servers
  /\ pc' = [pc EXCEPT ![j] = "l57"]
  /\ UNCHANGED <<file, procVars, mcp_server_url, ctx, agent, session, startCalls, exc>>

Branch_isnotnone(j) ==
  /\ pc[j] = "l46"
  /\ IF mcp_server_url[j] # None
     THEN /\ printed' = [printed EXCEPT ![j] =
                 Append(@, Line("configured", mcp_server_url[j][1], 0))]
          /\ mcp_servers' = [mcp_servers EXCEPT ![j] =
                 Append(@, MCPServerHTTP(mcp_server_url[j][1], MCP_TIMEOUT))]
     ELSE /\ printed' = [printed EXCEPT ![j] = Append(@, Line("no_url", "", 0))]
          /\ UNCHANGED mcp_servers
  /\ pc' = [pc EXCEPT ![j] = "l57"]
  /\ UNCHANGED <<file, procVars, mcp_server_url, ctx, agent, session, startCalls, exc>>

Branch_shared(j) ==
  /\ pc[j] = "l46"
  /\ IF Truthy(mcp_server_url[j])
     THEN /\ printed' = [printed EXCEPT ![j] =
                 Append(@, Line("configured", mcp_server_url[j][1], 0))]
          /\ mcp_servers' = [k \in Jobs |->
                 Append(mcp_servers[k], MCPServerHTTP(mcp_server_url[j][1], MCP_TIMEOUT))]
     ELSE /\ printed' = [printed EXCEPT ![j] = Append(@, Line("no_url", "", 0))]
          /\ UNCHANGED mcp_servers
  /\ pc' = [pc EXCEPT ![j] = "l57"]
  /\ UNCHANGED <<file, procVars, mcp_server_url, ctx, agent, session, startCalls, exc>>

Branch(j) ==
  /\ pc[j] = "l46"
  /\ IF Truthy(mcp_server_url[j])
     THEN /\ printed' = [printed EXCEPT ![j] =
                 Append(@, Line("configured", mcp_server_url[j][1], 0))]
          /\ mcp_servers' = [mcp_servers EXCEPT ![j] =
                 Append(@, MCPServerHTTP(mcp_server_url[j][1], MCP_TIMEOUT))]
     ELSE /\ printed' = [printed EXCEPT ![j] = Append(@, Line("no_url", "", 0))]
          /\ UNCHANGED mcp_servers
  /\ pc' = [pc EXCEPT ![j] = "l57"]
  /\ UNCHANGED <<file, procVars, mcp_server_url, ctx, agent, session, startCalls, exc>>

\* line 57: ctx.connect(auto_subscribe=AutoSubscribe.AUDIO_ONLY) is called and awaited
ConnectCall_noawait(j) ==
  /\ pc[j] = "l57"
  /\ ctx' = [ctx EXCEPT ![j].connectCalls = @ + 1, ![j].auto_subscribe = "AUDIO_ONLY"]
  /\ pc' = [pc EXCEPT ![j] = "l60"]
  /\ UNCHANGED <<file, procVars, mcp_server_url, mcp_servers, agent, session,
                 startCalls, printed, exc>>

ConnectCall(j) ==
  /\ pc[j] = "l57"
  /\ ctx' = [ctx EXCEPT ![j].connectCalls = @ + 1, ![j].auto_subscribe = "AUDIO_ONLY"]
  /\ pc' = [pc EXCEPT ![j] = "await_connect"]
  /\ UNCHANGED <<file, procVars, mcp_server_url, mcp_servers, agent, session,
                 startCalls, printed, exc>>

\* line 57: the awaited connect completes
ConnectOk(j) ==
  /\ pc[j] = "await_connect"
  /\ ctx' = [ctx EXCEPT ![j].connected = TRUE]
  /\ pc' = [pc EXCEPT ![j] = "l60"]
  /\ UNCHANGED <<file, procVars, mcp_server_url, mcp_servers, agent, session,
                 startCalls, printed, exc>>

\* line 57: the awaited connect raises; nothing catches it
ConnectFail_retry(j) ==
  /\ pc[j] = "await_connect"
  /\ pc' = [pc EXCEPT ![j] = "l57"]
  /\ UNCHANGED <<file, procVars, mcp_server_url, mcp_servers, ctx, agent, session,
                 startCalls, printed, exc>>

ConnectFail(j) ==
  /\ pc[j] = "await_connect"
  /\ exc' = [exc EXCEPT ![j] = "ConnectError"]
  /\ pc' = [pc EXCEPT ![j] = "raised"]
  /\ UNCHANGED <<file, procVars, mcp_server_url, mcp_servers, ctx, agent, session,
                 startCalls, printed>>

\* lines 60-63
BuildAgent_reread(j) ==
  /\ pc[j] = "l60"
  /\ reads' = Append(reads, read_text(file))
  /\ IF load_system_prompt(file).raised # ""
     THEN /\ exc' = [exc EXCEPT ![j] = load_system_prompt(file).raised]
          /\ pc' = [pc EXCEPT ![j] = "raised"]
          /\ UNCHANGED agent
     ELSE /\ agent' = [agent EXCEPT ![j] =
                 Some(voice_Agent(load_system_prompt(file).text, mcp_servers[j]))]
          /\ pc' = [pc EXCEPT ![j] = "l67"]
          /\ UNCHANGED exc
  /\ UNCHANGED <<file, dotenv, environ, proc, SYSTEM_PROMPT, mcp_server_url,
                 mcp_servers, ctx, session, startCalls, printed>>

BuildAgent_extends(j) ==
  /\ pc[j] = "l60"
  /\ SYSTEM_PROMPT' = Some(SYSTEM_PROMPT[1] \o " Room: " \o ctx[j].room)
  /\ agent' = [agent EXCEPT ![j] = Some(voice_Agent(SYSTEM_PROMPT'[1], mcp_servers[j]))]
  /\ pc' = [pc EXCEPT ![j] = "l67"]
  /\ UNCHANGED <<file, dotenv, environ, proc, reads, mcp_server_url, mcp_servers, ctx,
                 session, startCalls, printed, exc>>

BuildAgent(j) ==
  /\ pc[j] = "l60"
  /\ agent' = [agent EXCEPT ![j] = Some(voice_Agent(SYSTEM_PROMPT[1], mcp_servers[j]))]
  /\ pc' = [pc EXCEPT ![j] = "l67"]
  /\ UNCHANGED <<file, procVars, mcp_server_url, mcp_servers, ctx, session,
                 startCalls, printed, exc>>

\* lines 67-71
BuildSession(j) ==
  /\ pc[j] = "l67"
  /\ session' = [session EXCEPT ![j] = Some(voice_AgentSession(STT, LLM, TTS))]
  /\ pc' = [pc EXCEPT ![j] = "l74"]
  /\ UNCHANGED <<file, procVars, mcp_server_url, mcp_servers, ctx, agent,
                 startCalls, printed, exc>>

\* line 74: session.start(agent=agent, room=ctx.room) is called and awaited
StartCall(j) ==
  /\ pc[j] = "l74"
  /\ startCalls' = [startCalls EXCEPT ![j] = @ + 1]
  /\ pc' = [pc EXCEPT ![j] = "await_start"]
  /\ UNCHANGED <<file, procVars, mcp_server_url, mcp_servers, ctx, agent, session,
                 printed, exc>>

\* line 74: the awaited start returns
StartOk(j) ==
  /\ pc[j] = "await_start"
  /\ session' = [session EXCEPT ![j] = Some([@[1] EXCEPT !.started = TRUE])]
  /\ pc' = [pc EXCEPT ![j] = "l76"]
  /\ UNCHANGED <<file, procVars, mcp_server_url, mcp_servers, ctx, agent,
                 startCalls, printed, exc>>

\* line 74: the awaited start raises; nothing catches it
StartFail(j) ==
  /\ pc[j] = "await_start"
  /\ exc' = [exc EXCEPT ![j] = "StartError"]
  /\ pc' = [pc EXCEPT ![j] = "raised"]
  /\ UNCHANGED <<file, procVars, mcp_server_url, mcp_servers, ctx, agent, session,
                 startCalls, printed>>

\* line 76
PrintRoom(j) ==
  /\ pc[j] = "l76"
  /\ printed' = [printed EXCEPT ![j] = Append(@, Line("started", ctx[j].room, 0))]
  /\ pc' = [pc EXCEPT ![j] = "l77"]
  /\ UNCHANGED <<file, procVars, mcp_server_url, mcp_servers, ctx, agent, session,
                 startCalls, exc>>

\* line 77, then the coroutine returns
PrintCount_one(j) ==
  /\ pc[j] = "l77"
  /\ printed' = [printed EXCEPT ![j] = Append(@, Line("count", "", 1))]
  /\ pc' = [pc EXCEPT ![j] = "returned"]
  /\ UNCHANGED <<file, procVars, mcp_server_url, mcp_servers, ctx, agent, session,
                 startCalls, exc>>

PrintCount(j) ==
  /\ pc[j] = "l77"
  /\ printed' = [printed EXCEPT ![j] = Append(@, Line("count", "", Len(mcp_servers[j])))]
  /\ pc' = [pc EXCEPT ![j] = "returned"]
  /\ UNCHANGED <<file, procVars, mcp_server_url, mcp_servers, ctx, agent, session,
                 startCalls, exc>>

\* -------------------------------------------------------- specifications
JobStep(j) ==
  \/ Invoke(j)
  \/ GetEnv(j)
  \/ Branch(j)
  \/ ConnectCall(j)
  \/ ConnectOk(j)
  \/ ConnectFail(j)
  \/ BuildAgent(j)
  \/ BuildSession(j)
  \/ StartCall(j)
  \/ StartOk(j)
  \/ StartFail(j)
  \/ PrintRoom(j)
  \/ PrintCount(j)

Next ==
  \/ \E f \in FileStates : WriteFile(f)
  \/ LoadDotenv
  \/ ImportPrompt
  \/ \E j \in Jobs : JobStep(j)

Spec == Init /\ [][Next]_vars

\* The prompt file is only edited while no invocation of entrypoint is in flight
InFlight(j) ==
  pc[j] \notin {"idle", "returned", "raised"}

WriteBetween(f) ==
  /\ \A j \in Jobs : ~InFlight(j)
  /\ WriteFile(f)

NextBetween ==
  \/ \E f \in FileStates : WriteBetween(f)
  \/ LoadDotenv
  \/ ImportPrompt
  \/ \E j \in Jobs : JobStep(j)

SpecBetween == Init /\ [][NextBetween]_vars

\* ------------------------------------------------------------ properties
PastBranch(j) ==
  pc[j] \notin {"idle", "l42", "l46"}

IsBranchLine(l) ==
  l.kind \in {"configured", "no_url"}

IsConfirmationLine(l) ==
  l.kind \in {"started", "count"}

NoConfirmation(j) ==
  \A i \in 1..Len(printed[j]) : ~IsConfirmationLine(printed[j][i])

LoadFailed ==
  reads # <<>> /\ reads[1].raised # ""

\* C1: when MCP_SERVER_URL is a non-empty string u, the list the handler built, and the
\* list the agent constructor received, is exactly one descriptor with url u, timeout 10.
C1_OneServerWhenUrlSet ==
  \A j \in Jobs :
    (Truthy(environ) /\ PastBranch(j)) =>
      /\ mcp_servers[j] = <<[url |-> environ[1], timeout |-> 10]>>
      /\ agent[j] # None => agent[j][1].mcp_servers = <<[url |-> environ[1], timeout |-> 10]>>

C1_Witness ==
  \E j \in Jobs :
    /\ environ = Some("https://example.com/mcp")
    /\ agent[j] # None
    /\ Len(agent[j][1].mcp_servers) = 1

\* C2: when MCP_SERVER_URL is unset or empty, the list stays empty and the agent gets an
\* empty list; the handler goes on to connect and to start the session, and the only
\* exceptions that can leave it are those of connect and of session start.
C2_NoServerWhenUrlMissing ==
  \A j \in Jobs :
    (~Truthy(environ) /\ PastBranch(j)) =>
      /\ mcp_servers[j] = <<>>
      /\ agent[j] # None => agent[j][1].mcp_servers = <<>>
      /\ pc[j] # "l57" => ctx[j].connectCalls = 1
      /\ pc[j] \in {"await_start", "l76", "l77", "returned"} => startCalls[j] = 1
      /\ pc[j] = "raised" => exc[j] \in {"ConnectError", "StartError"}

C2_Witness ==
  \E j \in Jobs :
    /\ environ = Some("")
    /\ pc[j] = "returned"
    /\ ctx[j].connected
    /\ startCalls[j] = 1
    /\ session[j][1].started
    /\ agent[j][1].mcp_servers = <<>>

\* C3 (as stated): while an invocation runs with the prompt file missing or unreadable,
\* the handler raises before it calls connect, builds the agent or starts the session.
C3_HandlerRaisesOnMissingFile ==
  \A j \in Jobs :
    (InFlight(j) /\ read_text(file).raised # "") =>
      /\ ctx[j].connectCalls = 0
      /\ agent[j] = None
      /\ startCalls[j] = 0

\* C3 (amended): when the prompt load at module import failed, the process stops there:
\* no handler is ever invoked, so no connect, no agent, no session, no session start.
C3_NoConnectAfterFailedLoad ==
  LoadFailed =>
    /\ proc = "crashed"
    /\ SYSTEM_PROMPT = None
    /\ \A j \in Jobs :
         /\ pc[j] = "idle"
         /\ ctx[j].connectCalls = 0
         /\ agent[j] = None
         /\ session[j] = None
         /\ startCalls[j] = 0

C3_Witness ==
  /\ proc = "crashed"
  /\ Len(reads) = 1
  /\ reads[1].raised = "FileNotFoundError"

\* C4 (as stated): the agent built by an invocation carries the content the prompt file
\* has during that invocation.
C4_AgentCarriesCurrentFile ==
  \A j \in Jobs :
    (InFlight(j) /\ agent[j] # None /\ read_text(file).raised = "") =>
      agent[j][1].instructions = file.text

\* C4 (amended): the prompt file is read once, at module import, and never again; the
\* agent of every invocation carries the content read then, whatever the file holds now.
C4_AgentCarriesImportedFile ==
  /\ Len(reads) <= 1
  /\ \A j \in Jobs :
       agent[j] # None => (Len(reads) = 1 /\ agent[j][1].instructions = reads[1].text)

C4_Witness ==
  \E j \in Jobs : \E k \in Jobs \ {j} :
    /\ pc[k] = "returned"
    /\ InFlight(j)
    /\ agent[j] # None
    /\ read_text(file).raised = ""
    /\ file.text # agent[j][1].instructions

\* C5: connect and session start are each called at most once per invocation; a failed
\* connect leaves the handler with no agent, no session start and no confirmation line;
\* a failed session start leaves it with no confirmation line.
C5_FailFastNoRetry ==
  \A j \in Jobs :
    /\ ctx[j].connectCalls <= 1
    /\ startCalls[j] <= 1
    /\ exc[j] = "ConnectError" =>
         /\ pc[j] = "raised"
         /\ ~ctx[j].connected
         /\ agent[j] = None
         /\ session[j] = None
         /\ startCalls[j] = 0
         /\ NoConfirmation(j)
    /\ exc[j] = "StartError" =>
         /\ pc[j] = "raised"
         /\ ~session[j][1].started
         /\ NoConfirmation(j)
    /\ pc[j] = "raised" <=> exc[j] # ""

C5_Witness ==
  \E j \in Jobs : \E k \in Jobs :
    /\ exc[j] = "ConnectError"
    /\ ctx[j].connectCalls = 1
    /\ exc[k] = "StartError"
    /\ startCalls[k] = 1

\* C6: one linear order per invocation: the branch line is printed before connect is
\* requested, agent and session exist only after connect succeeded, session start is
\* requested only with both built, the handler returns only after session start
\* returned, and it suspends at most twice (once in connect, once in session start).
C6_LinearOrder ==
  \A j \in Jobs :
    /\ ctx[j].connectCalls >= 1 => (Len(printed[j]) >= 1 /\ IsBranchLine(printed[j][1]))
    /\ (agent[j] # None \/ session[j] # None) => ctx[j].connected
    /\ session[j] # None => agent[j] # None
    /\ startCalls[j] >= 1 => (ctx[j].connected /\ agent[j] # None /\ session[j] # None)
    /\ pc[j] = "returned" => (startCalls[j] = 1 /\ session[j][1].started)
    /\ ctx[j].connectCalls + startCalls[j] <= 2
    /\ pc[j] = "await_connect" => (ctx[j].connectCalls = 1 /\ startCalls[j] = 0)
    /\ pc[j] = "await_start" => (ctx[j].connectCalls = 1 /\ startCalls[j] = 1)

C6_Witness ==
  \E j \in Jobs : \E k \in Jobs \ {j} :
    /\ pc[j] = "returned"
    /\ session[j][1].started
    /\ pc[k] = "await_connect"

\* C7: once loaded, SYSTEM_PROMPT never changes, the file is not read a second time,
\* and every agent is built with the text that was loaded at process start.
C7_PromptLoadedOnce ==
  [][ /\ SYSTEM_PROMPT # None => SYSTEM_PROMPT' = SYSTEM_PROMPT
      /\ reads # <<>> => reads' = reads
      /\ \A j \in Jobs :
           agent'[j] # None =>
             /\ agent'[j][1].instructions = SYSTEM_PROMPT'[1]
             /\ agent'[j][1].instructions = reads'[1].text ]_vars

C7_Witness ==
  \E j \in Jobs : \E k \in Jobs \ {j} :
    /\ agent[j] # None
    /\ agent[k] # None
    /\ agent[j][1].instructions = agent[k][1].instructions
    /\ pc[j] = "await_start"
    /\ pc[k] = "await_start"
    /\ file = Missing

\* C8: the tool-server list of an invocation never has more than one element and does
\* not change once the invocation is past the environment-variable branch, whatever
\* the other invocations do.
C8_ListAtMostOneAndFrozen ==
  [][ \A j \in Jobs :
        /\ Len(mcp_servers[j]) <= 1
        /\ Len(mcp_servers'[j]) <= 1
        /\ PastBranch(j) => mcp_servers'[j] = mcp_servers[j] ]_vars

C8_Witness ==
  \E j \in Jobs : \E k \in Jobs \ {j} :
    /\ pc[j] = "await_connect"
    /\ pc[k] = "await_start"
    /\ Len(mcp_servers[j]) = 1
    /\ Len(mcp_servers[k]) = 1

\* C9: an invocation prints nothing before the branch, then exactly one branch line
\* (the configured one iff the variable is set and non-empty), and that before connect
\* is requested; the room line and then the count line come only after session start
\* returned, and the count is the length of the list the agent received.
C9_ConsoleOutput ==
  \A j \in Jobs :
    /\ ~PastBranch(j) => printed[j] = <<>>
    /\ PastBranch(j) =>
         /\ Len(printed[j]) \in 1..3
         /\ printed[j][1] = IF Truthy(environ) THEN Line("configured", environ[1], 0)
                                               ELSE Line("no_url", "", 0)
    /\ ctx[j].connectCalls >= 1 => (Len(printed[j]) >= 1 /\ IsBranchLine(printed[j][1]))
    /\ Len(printed[j]) >= 2 =>
         /\ session[j] # None
         /\ session[j][1].started
         /\ printed[j][2] = Line("started", ctx[j].room, 0)
    /\ Len(printed[j]) >= 3 =>
         printed[j][3] = Line("count", "", Len(agent[j][1].mcp_servers))
    /\ pc[j] = "returned" => Len(printed[j]) = 3
    /\ ~Truthy(environ) /\ pc[j] = "returned" => printed[j][3].n = 0

C9_Witness ==
  \E j \in Jobs :
    /\ pc[j] = "returned"
    /\ environ = None
    /\ printed[j] = <<Line("no_url", "", 0), Line("started", ctx[j].room, 0),
                      Line("count", "", 0)>>

\* C10 (as stated): the prompt text loaded from an existing file, and given to the agent
\* as instructions, is a non-empty string.
C10_PromptNonEmpty ==
  /\ SYSTEM_PROMPT # None => SYSTEM_PROMPT[1] # ""
  /\ \A j \in Jobs : agent[j] # None => agent[j][1].instructions # ""

\* C10 (amended): the prompt text is loaded only from a file that exists and is readable,
\* and it, and the instructions of every agent, is empty exactly when that file was empty.
C10_PromptEmptyIffFileEmpty ==
  /\ SYSTEM_PROMPT # None =>
       /\ Len(reads) = 1
       /\ reads[1].raised = ""
       /\ SYSTEM_PROMPT[1] = "" <=> reads[1].text = ""
  /\ \A j \in Jobs :
       agent[j] # None => (agent[j][1].instructions = "" <=> reads[1].text = "")

C10_Witness ==
  \E j \in Jobs :
    /\ agent[j] # None
    /\ agent[j][1].instructions = ""
    /\ reads[1] = [raised |-> "", text |-> ""]
====
